---- MODULE Spec2Model ----
(***************************************************************************)
(* A model of robotoff/products.py: the product dataset refresh lifecycle  *)
(* (has_dataset_changed, fetch_dataset and its helpers), the Product       *)
(* projection, the ProductStream filters, the in-memory and the MongoDB    *)
(* product stores.                                                         *)
(*                                                                         *)
(* Values.  A JSON value is a tagged record [t, v]; a raw product (a JSON  *)
(* object) is a function from the keys it carries to JSON values; a text   *)
(* whose characters matter (an ETag header, an image key) is a sequence of *)
(* one-character strings; a dataset file is a sequence of lines.           *)
(***************************************************************************)
EXTENDS Integers, Sequences, FiniteSets, TLC

VARIABLES
  \* ---- dataset refresh lifecycle (files on disk, the remote, fetch_dataset) ----
  remoteEtag,     \* raw value of the ETag header the remote currently serves
  etagFile,       \* settings.JSONL_DATASET_ETAG_PATH : NoFile or its content
  installed,      \* settings.JSONL_DATASET_PATH      : NoFile or its lines
  installedMin,   \* settings.JSONL_MIN_DATASET_PATH  : NoFile or its lines
  tmpFull,        \* <tmp_dir>/products.jsonl.gz
  tmpMin,         \* <tmp_dir>/products-min.jsonl.gz
  etag,           \* fetch_dataset's local `etag`
  minify,         \* fetch_dataset's argument
  pc,             \* position of the refresh cycle
  outcome,        \* how the last cycle ended
  minCount,       \* settings.DATASET_CHECK_MIN_PRODUCT_COUNT
  downloads,      \* number of GET transfers so far
  skipsInRow,     \* consecutive cycles that stopped at the change check
  hist,           \* history: state of the disk when the running cycle began,
                  \* and what that cycle downloaded
  \* ---- pure functions (projection, minify, filters, memory store) ----
  input,          \* the source sequence of raw products / the raw product
  call,           \* the call made on the source (a source is consumed once)
  result,         \* what that call returned
  \* ---- live store ----
  mongoAccess,    \* settings.ENABLE_MONGODB_ACCESS
  collection,     \* _id's of the documents of the remote collection
  queries,        \* number of find_one queries issued so far
  lookup,         \* the last lookup: its arguments and what it returned
  client          \* get_mongo_client: its cache, the MongoClient objects
                  \* constructed, and each caller's position

refreshVars == <<remoteEtag, etagFile, installed, installedMin, tmpFull, tmpMin,
                 etag, minify, pc, outcome, minCount, downloads, skipsInRow, hist>>
pureVars == <<input, call, result>>
liveVars == <<mongoAccess, collection, queries, lookup, client>>
vars == <<refreshVars, pureVars, liveVars>>

\* ------------------------------------------------------------------ bounds
MaxLines == 2       \* lines of a remote dataset file
MaxDownloads == 2   \* GET transfers in one behaviour
MaxMinCount == 2    \* largest configured minimum product count
MaxImages == 2      \* entries of a product's `images` mapping
MaxLen == 2         \* products of a source sequence
MaxLookups == 3     \* lookups against the live store in one behaviour
MaxTime == 3        \* largest timestamp of a product or of a bound
MaxPath == 3        \* atoms of a data file path
MaxThreads == 3     \* threads calling get_mongo_client
MaxClientCalls == 4 \* calls of get_mongo_client in one behaviour

\* ------------------------------------------------------------- JSON values
JNull == [t |-> "null", v |-> 0]
JInt(n) == [t |-> "int", v |-> n]
JStr(s) == [t |-> "str", v |-> s]
JList(l) == [t |-> "list", v |-> l]
JMap(keys) == [t |-> "map", v |-> keys]

Has(item, k) == k \in DOMAIN item
EmptyItem == [k \in {} |-> JNull]

\* python truthiness of a JSON value (`x or default`, `if x:`)
Truthy(x) ==
  CASE x.t = "null" -> FALSE
    [] x.t = "int" -> x.v # 0
    [] x.t = "str" -> x.v # ""
    [] x.t = "list" -> x.v # <<>>
    [] x.t = "map" -> x.v # <<>>
    [] OTHER -> TRUE

\* ------------------------------------------------------------ dataset files
NoFile == [exists |-> FALSE, lines |-> <<>>]
File(ls) == [exists |-> TRUE, lines |-> ls]
GoodLine(item) == [parses |-> TRUE, item |-> item]
BadLine == [parses |-> FALSE, item |-> EmptyItem]

\* Product.get_fields
get_fields ==
  {"code", "countries_tags", "categories_tags", "emb_codes_tags", "labels_tags",
   "quantity", "expiration_date", "brands_tags", "stores_tags", "unique_scans_n",
   "images", "lang", "ingredients_text", "nutriments"}

minified_item_all(item) == item

\* the dict comprehension of minify_product_dataset
minified_item(item) == [k \in (DOMAIN item) \cap get_fields |-> item[k]]

\* jsonl_iter over a file: the items of the lines before the first line that
\* does not parse, and whether iteration raised there
RECURSIVE FirstBad(_, _)
FirstBad(ls, i) ==
  IF i > Len(ls) THEN 0
  ELSE IF ~ls[i].parses THEN i
  ELSE FirstBad(ls, i + 1)

jsonl_iter(f) ==
  LET b == FirstBad(f.lines, 1)
      n == IF b = 0 THEN Len(f.lines) ELSE b - 1
  IN [raised |-> b # 0, items |-> [i \in 1..n |-> f.lines[i].item]]

\* ProductDataset.count
dataset_count(f) ==
  LET it == jsonl_iter(f) IN [raised |-> it.raised, value |-> Len(it.items)]

is_valid_dataset_nocount(f, min) ==
  LET c == dataset_count(f)
  IN [raised |-> FALSE, value |-> ~c.raised]

\* is_valid_dataset: any exception of the iteration is caught
is_valid_dataset(f, min) ==
  LET c == dataset_count(f)
  IN IF c.raised THEN [raised |-> FALSE, value |-> FALSE]
     ELSE IF c.value < min THEN [raised |-> FALSE, value |-> FALSE]
     ELSE [raised |-> FALSE, value |-> TRUE]

\* minify_product_dataset: one written line per item read
minify_product_dataset(f) ==
  LET it == jsonl_iter(f)
  IN File([i \in 1..Len(it.items) |-> GoodLine(minified_item(it.items[i]))])

\* ------------------------------------------------------------------- ETag
Q == "\""
Apos == "'"
QuoteChars == {Q, Apos}

RECURSIVE lstrip(_)
lstrip(s) == IF s # <<>> /\ Head(s) \in QuoteChars THEN lstrip(Tail(s)) ELSE s

RECURSIVE rstrip(_)
rstrip(s) ==
  IF s # <<>> /\ s[Len(s)] \in QuoteChars THEN rstrip(SubSeq(s, 1, Len(s) - 1)) ELSE s

\* str.strip("'\"")
strip(s) == rstrip(lstrip(s))

\* values of the remote's ETag header; <<>> is the header missing
\* (headers.get("ETag", ""))
RawEtags == { <<>>, <<Q, "a", Q>>, <<Apos, "b", Q>> }

\* get_product_dataset_etag: None when the file is missing
NoEtag == [exists |-> FALSE, text |-> <<>>]
EtagText(s) == [exists |-> TRUE, text |-> s]

has_dataset_changed_unstripped(file, header) ==
  IF file.exists THEN (IF header = file.text THEN FALSE ELSE TRUE) ELSE TRUE

\* has_dataset_changed
has_dataset_changed(file, header) ==
  IF file.exists
  THEN LET current_etag == strip(header)
       IN IF current_etag = file.text THEN FALSE ELSE TRUE
  ELSE TRUE

\* ------------------------------------------------- the refresh lifecycle
ItemA == [k \in {"code", "lang", "foo"} |->
            IF k = "code" THEN JStr("1") ELSE IF k = "lang" THEN JStr("fr") ELSE JInt(7)]
LifecycleLines == {GoodLine(ItemA), BadLine}

RECURSIVE SeqsUpTo(_, _)
SeqsUpTo(S, n) ==
  IF n = 0 THEN {<<>>}
  ELSE LET shorter == SeqsUpTo(S, n - 1)
       IN shorter \cup {Append(s, x) : s \in {q \in shorter : Len(q) = n - 1}, x \in S}

RemoteFiles == {File(ls) : ls \in SeqsUpTo(LifecycleLines, MaxLines)}

NoHist == [installed |-> NoFile, installedMin |-> NoFile, etagFile |-> NoEtag,
           fetched |-> NoFile, header |-> <<>>]

PureIdle ==
  /\ input = <<>>
  /\ call = [op |-> "none"]
  /\ result = [op |-> "none"]

\* get_mongo_client never called: an empty cache, no MongoClient constructed;
\* 0 stands for no client object, n > 0 for the n-th object constructed
NoClient ==
  [cache |-> 0, created |-> 0, calls |-> 0,
   pc |-> [t \in 1..MaxThreads |-> "idle"],
   held |-> [t \in 1..MaxThreads |-> 0],
   got |-> [t \in 1..MaxThreads |-> 0]]

LiveIdle ==
  /\ mongoAccess = FALSE
  /\ collection = {}
  /\ queries = 0
  /\ lookup = [op |-> "none"]
  /\ client = NoClient

RefreshIdle ==
  /\ remoteEtag = <<>>
  /\ etagFile = NoEtag
  /\ installed = NoFile
  /\ installedMin = NoFile
  /\ tmpFull = NoFile
  /\ tmpMin = NoFile
  /\ etag = <<>>
  /\ minify = FALSE
  /\ pc = "idle"
  /\ outcome = "none"
  /\ minCount = 0
  /\ downloads = 0
  /\ skipsInRow = 0
  /\ hist = NoHist

\* a fresh deployment: nothing installed, no token persisted
InitRefresh ==
  /\ remoteEtag \in RawEtags
  /\ etagFile = NoEtag
  /\ installed = NoFile
  /\ installedMin = NoFile
  /\ tmpFull = NoFile
  /\ tmpMin = NoFile
  /\ etag = <<>>
  /\ minify = FALSE
  /\ pc = "idle"
  /\ outcome = "none"
  /\ minCount \in 1..MaxMinCount
  /\ downloads = 0
  /\ skipsInRow = 0
  /\ hist = NoHist
  /\ PureIdle
  /\ LiveIdle

\* the remote publishes a new export: the ETag it serves changes
RemoteChange ==
  /\ \E h \in RawEtags \ {remoteEtag} : remoteEtag' = h
  /\ UNCHANGED <<pureVars, liveVars, etagFile, installed, installedMin, tmpFull, tmpMin, etag, minify,
                 pc, outcome, minCount, downloads, skipsInRow, hist>>

\* the caller of the lifecycle: `if has_dataset_changed(): fetch_dataset(minify)`.
\* Here has_dataset_changed() is false and the cycle ends.
RefreshSkip ==
  /\ pc = "idle"
  /\ ~has_dataset_changed(etagFile, remoteEtag)
  /\ outcome' = "skipped"
  /\ skipsInRow' = IF skipsInRow < 2 THEN skipsInRow + 1 ELSE skipsInRow
  /\ hist' = [installed |-> installed, installedMin |-> installedMin,
              etagFile |-> etagFile, fetched |-> NoFile, header |-> <<>>]
  /\ UNCHANGED <<pureVars, liveVars, remoteEtag, etagFile, installed, installedMin,
                 tmpFull, tmpMin, etag, minify, pc, minCount, downloads>>

\* has_dataset_changed() is true: fetch_dataset(minify) is entered
RefreshStart ==
  /\ pc = "idle"
  /\ downloads < MaxDownloads
  /\ has_dataset_changed(etagFile, remoteEtag)
  /\ \E m \in BOOLEAN : minify' = m
  /\ pc' = "download"
  /\ outcome' = "running"
  /\ skipsInRow' = 0
  /\ hist' = [installed |-> installed, installedMin |-> installedMin,
              etagFile |-> etagFile, fetched |-> NoFile, header |-> <<>>]
  /\ UNCHANGED <<pureVars, liveVars, remoteEtag, etagFile, installed, installedMin, tmpFull, tmpMin,
                 etag, minCount, downloads>>

\* download_dataset's return value
download_etag(header) == strip(header)

\* fetch_dataset: etag = download_dataset(output_path)
Download ==
  /\ pc = "download"
  /\ \E f \in RemoteFiles :
       /\ tmpFull' = f
       /\ hist' = [hist EXCEPT !.fetched = f, !.header = remoteEtag]
  /\ etag' = download_etag(remoteEtag)
  /\ downloads' = downloads + 1
  /\ pc' = "validate"
  /\ UNCHANGED <<pureVars, liveVars, remoteEtag, etagFile, installed, installedMin, tmpMin, minify,
                 outcome, minCount, skipsInRow>>

\* fetch_dataset: `if not is_valid_dataset(output_path): return False`; leaving
\* the `with` block removes the temporary directory
Validate ==
  /\ pc = "validate"
  /\ LET valid == is_valid_dataset(tmpFull, minCount)
     IN IF valid.raised
        THEN /\ pc' = "idle"
             /\ outcome' = "raised"
             /\ tmpFull' = NoFile
             /\ etag' = <<>>
             /\ minify' = FALSE
        ELSE IF ~valid.value
        THEN /\ pc' = "idle"
             /\ outcome' = "false"
             /\ tmpFull' = NoFile
             /\ etag' = <<>>
             /\ minify' = FALSE
        ELSE /\ pc' = IF minify THEN "minify" ELSE "copy_full"
             /\ UNCHANGED <<outcome, tmpFull, etag, minify>>
  /\ UNCHANGED <<pureVars, liveVars, remoteEtag, etagFile, installed, installedMin,
                 tmpMin, minCount, downloads, skipsInRow, hist>>

\* fetch_dataset: minify_product_dataset(output_path, minify_path)
Minify ==
  /\ pc = "minify"
  /\ tmpMin' = minify_product_dataset(tmpFull)
  /\ pc' = "copy_full"
  /\ UNCHANGED <<pureVars, liveVars, remoteEtag, etagFile, installed, installedMin, tmpFull, etag,
                 minify, outcome, minCount, downloads, skipsInRow, hist>>

\* shutil.copy(src, dst) opens dst for writing, which creates or truncates it,
\* then copies src chunk after chunk
copy_open(dst) == File(<<>>)
copy_chunk(src, dst) == File(Append(dst.lines, src.lines[Len(dst.lines) + 1]))
copy_done(src, dst) == dst.exists /\ Len(dst.lines) = Len(src.lines)

\* shutil.copy(str(output_path), settings.JSONL_DATASET_PATH)
CopyFullOpen ==
  /\ pc = "copy_full"
  /\ installed' = copy_open(installed)
  /\ pc' = "copy_full_write"
  /\ UNCHANGED <<pureVars, liveVars, remoteEtag, etagFile, installedMin, tmpFull, tmpMin, etag, minify,
                 outcome, minCount, downloads, skipsInRow, hist>>

CopyFullChunk ==
  /\ pc = "copy_full_write"
  /\ ~copy_done(tmpFull, installed)
  /\ installed' = copy_chunk(tmpFull, installed)
  /\ UNCHANGED <<pureVars, liveVars, remoteEtag, etagFile, installedMin, tmpFull, tmpMin, etag, minify,
                 pc, outcome, minCount, downloads, skipsInRow, hist>>

CopyFullClose ==
  /\ pc = "copy_full_write"
  /\ copy_done(tmpFull, installed)
  /\ pc' = IF minify THEN "copy_min" ELSE "save_etag"
  /\ UNCHANGED <<pureVars, liveVars, remoteEtag, etagFile, installed, installedMin, tmpFull, tmpMin,
                 etag, minify, outcome, minCount, downloads, skipsInRow, hist>>

\* shutil.copy(str(minify_path), settings.JSONL_MIN_DATASET_PATH)
CopyMinOpen ==
  /\ pc = "copy_min"
  /\ installedMin' = copy_open(installedMin)
  /\ pc' = "copy_min_write"
  /\ UNCHANGED <<pureVars, liveVars, remoteEtag, etagFile, installed, tmpFull, tmpMin, etag, minify,
                 outcome, minCount, downloads, skipsInRow, hist>>

CopyMinChunk ==
  /\ pc = "copy_min_write"
  /\ ~copy_done(tmpMin, installedMin)
  /\ installedMin' = copy_chunk(tmpMin, installedMin)
  /\ UNCHANGED <<pureVars, liveVars, remoteEtag, etagFile, installed, tmpFull, tmpMin, etag, minify,
                 pc, outcome, minCount, downloads, skipsInRow, hist>>

CopyMinClose ==
  /\ pc = "copy_min_write"
  /\ copy_done(tmpMin, installedMin)
  /\ pc' = "save_etag"
  /\ UNCHANGED <<pureVars, liveVars, remoteEtag, etagFile, installed, installedMin, tmpFull, tmpMin,
                 etag, minify, outcome, minCount, downloads, skipsInRow, hist>>

SaveEtagFromProbe ==
  /\ pc = "save_etag"
  /\ etagFile' = EtagText(strip(remoteEtag))
  /\ pc' = "idle"
  /\ outcome' = "true"
  /\ tmpFull' = NoFile
  /\ tmpMin' = NoFile
  /\ etag' = <<>>
  /\ minify' = FALSE
  /\ UNCHANGED <<pureVars, liveVars, remoteEtag, installed, installedMin, minCount,
                 downloads, skipsInRow, hist>>

\* save_product_dataset_etag(etag); return True
SaveEtag ==
  /\ pc = "save_etag"
  /\ etagFile' = EtagText(etag)
  /\ pc' = "idle"
  /\ outcome' = "true"
  /\ tmpFull' = NoFile
  /\ tmpMin' = NoFile
  /\ etag' = <<>>
  /\ minify' = FALSE
  /\ UNCHANGED <<pureVars, liveVars, remoteEtag, installed, installedMin, minCount,
                 downloads, skipsInRow, hist>>

\* the process dies inside fetch_dataset; the disk is left as it is
Crash ==
  /\ pc # "idle"
  /\ pc' = "idle"
  /\ outcome' = "crashed"
  /\ tmpFull' = NoFile
  /\ tmpMin' = NoFile
  /\ etag' = <<>>
  /\ minify' = FALSE
  /\ UNCHANGED <<pureVars, liveVars, remoteEtag, etagFile, installed, installedMin,
                 minCount, downloads, skipsInRow, hist>>

NextRefresh ==
  \/ RemoteChange
  \/ RefreshSkip
  \/ RefreshStart
  \/ Download
  \/ Validate
  \/ Minify
  \/ CopyFullOpen
  \/ CopyFullChunk
  \/ CopyFullClose
  \/ CopyMinOpen
  \/ CopyMinChunk
  \/ CopyMinClose
  \/ SaveEtag
  \/ Crash

SpecRefresh == InitRefresh /\ [][NextRefresh]_vars

\* ------------------------------------------------------------- Product
\* dict.get(k) and `dict.get(k) or default`
get(item, k) == IF Has(item, k) THEN item[k] ELSE JNull
get_or(item, k, default) ==
  IF Has(item, k) /\ Truthy(item[k]) THEN item[k] ELSE default

Digits == {"0", "1", "2", "3", "4", "5", "6", "7", "8", "9"}

isdigit_nonempty(key) == key # <<>>

\* str.isdigit: at least one character, and every character a digit
isdigit(key) == key # <<>> /\ \A i \in 1..Len(key) : key[i] \in Digits

\* list(key for key in images.keys() if key.isdigit()); `images` is the JSON
\* object, its keys in the order the object lists them
digit_keys(images) ==
  LET isd(key) == isdigit(key) IN JList(SelectSeq(images.v, isd))

\* Product.__init__
Product(product) ==
  LET images == get_or(product, "images", JMap(<<>>))
  IN [barcode |-> get(product, "code"),
      countries_tags |-> get_or(product, "countries_tags", JList(<<>>)),
      categories_tags |-> get_or(product, "categories_tags", JList(<<>>)),
      emb_codes_tags |-> get_or(product, "emb_codes_tags", JList(<<>>)),
      labels_tags |-> get_or(product, "labels_tags", JList(<<>>)),
      quantity |-> get_or(product, "quantity", JNull),
      expiration_date |-> get_or(product, "expiration_date", JNull),
      brands_tags |-> get_or(product, "brands_tags", JList(<<>>)),
      stores_tags |-> get_or(product, "stores_tags", JList(<<>>)),
      packagings |-> get_or(product, "packagings", JList(<<>>)),
      unique_scans_n |-> get_or(product, "unique_scans_n", JInt(0)),
      images |-> images,
      image_ids |-> IF Has(product, "image_ids") THEN product["image_ids"]
                    ELSE digit_keys(images),
      lang |-> get(product, "lang"),
      ingredients_text |-> get(product, "ingredients_text"),
      nutriments |-> get_or(product, "nutriments", JMap(<<>>))]

\* a projection argument: None, or a list of field names (its order and its
\* repetitions do not matter to the code, so it is kept as a set)
NoProjection == [given |-> FALSE, fields |-> {}]
Projection(fields) == [given |-> TRUE, fields |-> fields]

\* the body of ProductStream.iter_product's loop, before Product(...)
projected_item(item, projection) ==
  IF projection.given /\ projection.fields # {}
  THEN LET picked == [k \in projection.fields \cap DOMAIN item |-> item[k]]
       IN IF "image_ids" \in projection.fields
          THEN [k \in (DOMAIN picked) \cup {"image_ids"} |->
                  IF k = "image_ids"
                  THEN digit_keys(get_or(item, "images", JMap(<<>>)))
                  ELSE picked[k]]
          ELSE picked
  ELSE item

\* ProductStream.iter_product
iter_product(items, projection) ==
  [i \in 1..Len(items) |-> Product(projected_item(items[i], projection))]

\* ---- the raw products the projection is applied to
ImageKeys == { <<"1">>, <<"1", "2">>, <<"f">>, <<"1", "f">>, <<>> }

\* the sequences of at most n distinct elements of S
DistinctSeqs(S, n) ==
  {q \in SeqsUpTo(S, n) : \A i, j \in 1..Len(q) : i # j => q[i] # q[j]}

Absent == [t |-> "absent", v |-> 0]

\* the JSON object with the given (key, value) choices, Absent meaning no key
Item(choice) == [k \in {x \in DOMAIN choice : choice[x] # Absent} |-> choice[k]]

ImagesValues ==
  {Absent, JNull} \cup {JMap(keys) : keys \in DistinctSeqs(ImageKeys, MaxImages)}
ImageIdsValues == {Absent, JNull, JList(<<>>), JList(<< <<"1">> >>), JList(<< <<"9">> >>)}

RecordItems ==
  {Item([code |-> c, images |-> im, image_ids |-> ids]) :
     c \in {Absent, JStr("1")}, im \in ImagesValues, ids \in ImageIdsValues}

Projections ==
  {NoProjection} \cup {Projection(F) : F \in SUBSET {"code", "images", "image_ids"}}

InitRecord ==
  /\ input \in {<<r>> : r \in RecordItems}
  /\ call = [op |-> "none"]
  /\ result = [op |-> "none"]
  /\ RefreshIdle
  /\ LiveIdle

\* list(stream.iter_product(projection)) over a stream of one raw product
IterProduct ==
  /\ call.op = "none"
  /\ \E projection \in Projections :
       /\ call' = [op |-> "iter_product", projection |-> projection]
       /\ result' = [op |-> "iter_product",
                     products |-> iter_product(input, projection)]
  /\ UNCHANGED <<input, refreshVars, liveVars>>

NextRecord == IterProduct

SpecRecord == InitRecord /\ [][NextRecord]_vars

\* ------------------------------------------------- MemoryProductStore
\* what a lookup returns when there is no product
None == [none |-> TRUE]

load_from_path_step_unchecked(store, product) ==
  (product.barcode :> product) @@ store

\* MemoryProductStore.load_from_path, the body of its loop:
\* `if product.barcode: store[product.barcode] = product`
load_from_path_step(store, product) ==
  IF Truthy(product.barcode) THEN (product.barcode :> product) @@ store
  ELSE store

RECURSIVE load_from_path_loop(_, _, _)
load_from_path_loop(store, products, i) ==
  IF i > Len(products) THEN store
  ELSE load_from_path_loop(load_from_path_step(store, products[i]), products, i + 1)

\* MemoryProductStore.load_from_path
load_from_path(f, projection) ==
  IF projection.given /\ "code" \notin projection.fields
  THEN [raised |-> TRUE, store |-> <<>>]
  ELSE LET stream == jsonl_iter(f)
       IN [raised |-> stream.raised,
           store |-> load_from_path_loop(<<>>, iter_product(stream.items, projection), 1)]

\* MemoryProductStore.__len__
store_len(store) == Cardinality(DOMAIN store)

\* MemoryProductStore.__getitem__
store_getitem(store, k) == IF k \in DOMAIN store THEN store[k] ELSE None

\* ---- the snapshots minify and the store are applied to
SnapshotItems ==
  LET all == {Item([code |-> c, lang |-> l, foo |-> x, image_ids |-> ids]) :
                c \in {Absent, JNull, JStr(""), JStr("1"), JStr("2")},
                l \in {Absent, JStr("fr")},
                x \in {Absent, JInt(7)},
                ids \in {Absent, JList(<<>>)}}
  IN {r \in all : ~(Has(r, "foo") /\ Has(r, "image_ids"))}

FileOf(items) == File([i \in 1..Len(items) |-> GoodLine(items[i])])

StoreProjections ==
  {NoProjection, Projection({}), Projection({"code"}), Projection({"lang"}),
   Projection({"code", "lang"})}

LookupKeys == {JNull, JStr(""), JStr("1"), JStr("2"), JStr("3")}

InitSnapshot ==
  /\ input \in SeqsUpTo(SnapshotItems, MaxLen)
  /\ call = [op |-> "none"]
  /\ result = [op |-> "none"]
  /\ RefreshIdle
  /\ LiveIdle

\* minify_product_dataset(dataset_path, output_path) on the snapshot
MinifyDataset ==
  /\ call.op = "none"
  /\ call' = [op |-> "minify_product_dataset"]
  /\ result' = [op |-> "minify_product_dataset",
                file |-> minify_product_dataset(FileOf(input))]
  /\ UNCHANGED <<input, refreshVars, liveVars>>

\* MemoryProductStore.load_from_path(path, projection) on the snapshot
LoadFromPath ==
  /\ call.op = "none"
  /\ \E projection \in StoreProjections :
       LET built == load_from_path(FileOf(input), projection)
       IN /\ call' = [op |-> "load_from_path", projection |-> projection]
          /\ result' = [op |-> "load_from_path", raised |-> built.raised,
                        store |-> built.store]
  /\ UNCHANGED <<input, refreshVars, liveVars>>

NextSnapshot ==
  \/ MinifyDataset
  \/ LoadFromPath

SpecSnapshot == InitSnapshot /\ [][NextSnapshot]_vars

\* ----------------------------------------------------- DBProductStore
Barcodes == {"1", "2", "3"}

\* the document stored under an _id
Document(id) ==
  [k \in {"_id", "code", "lang"} |-> IF k = "lang" THEN JStr("fr") ELSE JStr(id)]

\* collection.find_one({"_id": id}, projection): the document, with the
\* projected fields and _id only when a projection is given, or None
find_one(coll, id, projection) ==
  IF id \in coll
  THEN IF projection.given
       THEN [k \in (projection.fields \cup {"_id"}) \cap DOMAIN Document(id) |->
               Document(id)[k]]
       ELSE Document(id)
  ELSE None

get_product_unguarded(access, coll, id, projection) ==
  [value |-> find_one(coll, id, projection), queried |-> TRUE]

\* DBProductStore.get_product: the value returned, and whether the collection
\* was queried
get_product(access, coll, id, projection) ==
  IF ~access THEN [value |-> None, queried |-> FALSE]
  ELSE [value |-> find_one(coll, id, projection), queried |-> TRUE]

\* DBProductStore.__getitem__
db_getitem(access, coll, id) ==
  LET product == get_product(access, coll, id, NoProjection)
  IN IF product.value # None /\ product.value # EmptyItem
     THEN [value |-> Product(product.value), queried |-> product.queried]
     ELSE [value |-> None, queried |-> product.queried]

InitLive ==
  /\ mongoAccess \in BOOLEAN
  /\ collection \in SUBSET Barcodes
  /\ queries = 0
  /\ lookup = [op |-> "none", n |-> 0]
  /\ client = NoClient
  /\ RefreshIdle
  /\ PureIdle

\* store.get_product(product_id, projection)
GetProduct ==
  /\ lookup.n < MaxLookups
  /\ \E id \in Barcodes, projection \in {NoProjection, Projection({"code"})} :
       LET r == get_product(mongoAccess, collection, id, projection)
       IN /\ lookup' = [op |-> "get_product", n |-> lookup.n + 1, id |-> id,
                        value |-> r.value, queried |-> r.queried]
          /\ queries' = IF r.queried THEN queries + 1 ELSE queries
  /\ UNCHANGED <<mongoAccess, collection, client, refreshVars, pureVars>>

\* store[product_id]
GetItem ==
  /\ lookup.n < MaxLookups
  /\ \E id \in Barcodes :
       LET r == db_getitem(mongoAccess, collection, id)
       IN /\ lookup' = [op |-> "getitem", n |-> lookup.n + 1, id |-> id,
                        value |-> r.value, queried |-> r.queried]
          /\ queries' = IF r.queried THEN queries + 1 ELSE queries
  /\ UNCHANGED <<mongoAccess, collection, client, refreshVars, pureVars>>

NextLive ==
  \/ GetProduct
  \/ GetItem

SpecLive == InitLive /\ [][NextLive]_vars

\* ------------------------------------------------------ ProductStream
\* a stream once consumed: the exception its consumption raised ("none" when
\* it raised nothing) and the products it yielded
Stream(items) == [raised |-> "none", items |-> items]
Raised(exc) == [raised |-> exc, items |-> <<>>]

InSeq(x, seq) == \E i \in 1..Len(seq) : seq[i] = x

\* ComparisonOperator
ComparisonOperator == {"eq", "gt", "geq", "lt", "leq"}

\* ComparisonOperator.get_from_string
get_from_string(value) ==
  IF value \in ComparisonOperator THEN [raised |-> "none", operator |-> value]
  ELSE [raised |-> "ValueError", operator |-> value]

\* python's ==, >, >=, <, <= on two JSON values: equality is defined between
\* any two values, an ordering only between two numbers (or two strings, which
\* the model's numeric references never meet) and raises TypeError otherwise
py_compare(value_1, value_2, comparison_operator) ==
  IF comparison_operator = "eq"
  THEN [raised |-> "none", value |-> value_1 = value_2]
  ELSE IF value_1.t = "int" /\ value_2.t = "int"
  THEN [raised |-> "none",
        value |-> CASE comparison_operator = "gt" -> value_1.v > value_2.v
                    [] comparison_operator = "geq" -> value_1.v >= value_2.v
                    [] comparison_operator = "lt" -> value_1.v < value_2.v
                    [] OTHER -> value_1.v <= value_2.v]
  ELSE [raised |-> "TypeError", value |-> FALSE]

apply_comparison_operator_nocatch(value_1, value_2, comparison_operator) ==
  py_compare(value_1, value_2, comparison_operator)

\* apply_comparison_operator: `except TypeError: return False`
apply_comparison_operator(value_1, value_2, comparison_operator) ==
  LET r == py_compare(value_1, value_2, comparison_operator)
  IN IF r.raised = "TypeError" THEN [raised |-> "none", value |-> FALSE] ELSE r

\* product.get(field, default)
get_default(item, field, default) == IF Has(item, field) THEN item[field] ELSE default

\* ProductStream.filter_by_country_tag
filter_by_country_tag(items, country_tag) ==
  Stream(SelectSeq(items,
    LAMBDA product : InSeq(country_tag, get_or(product, "countries_tags", JList(<<>>)).v)))

\* ProductStream.filter_by_state_tag
filter_by_state_tag(items, state_tag) ==
  Stream(SelectSeq(items,
    LAMBDA product : InSeq(state_tag, get_or(product, "states_tags", JList(<<>>)).v)))

filter_text_field_first(items, field, value) ==
  LET all == SelectSeq(items, LAMBDA product : get_default(product, field, JStr("")) = value)
  IN Stream(IF all = <<>> THEN <<>> ELSE <<Head(all)>>)

\* ProductStream.filter_text_field
filter_text_field(items, field, value) ==
  Stream(SelectSeq(items, LAMBDA product : get_default(product, field, JStr("")) = value))

\* ProductStream.filter_number_field: the operator name is resolved at the
\* call; the comparisons are made when the stream is consumed
filter_number_field(items, field, ref, default, operator) ==
  LET operator_ == get_from_string(operator)
      test(product) ==
        apply_comparison_operator(get_default(product, field, default), ref,
                                  operator_.operator)
  IN IF operator_.raised # "none" THEN Raised(operator_.raised)
     ELSE IF \E i \in 1..Len(items) : test(items[i]).raised # "none"
     THEN Raised("TypeError")
     ELSE Stream(SelectSeq(items, LAMBDA product : test(product).value))

\* ProductStream.filter_nonempty_text_field
filter_nonempty_text_field(items, field) ==
  Stream(SelectSeq(items, LAMBDA product : get_or(product, field, JStr("")) # JStr("")))

\* ProductStream.filter_empty_text_field
filter_empty_text_field(items, field) ==
  Stream(SelectSeq(items, LAMBDA product : ~(get_or(product, field, JStr("")) # JStr(""))))

\* ProductStream.filter_nonempty_tag_field
filter_nonempty_tag_field(items, field) ==
  Stream(SelectSeq(items, LAMBDA product : Truthy(get_or(product, field, JList(<<>>)))))

\* ProductStream.filter_empty_tag_field
filter_empty_tag_field(items, field) ==
  Stream(SelectSeq(items, LAMBDA product : ~Truthy(get_or(product, field, JList(<<>>)))))

\* a datetime argument: None, or a datetime, named by datetime.timestamp()
NoTime == [given |-> FALSE, timestamp |-> 0]
Time(n) == [given |-> TRUE, timestamp |-> n]

\* ProductStream.filter_by_modified_datetime: `if from_t: ... elif to_t: ...`
filter_by_modified_datetime(items, from_t, to_t) ==
  IF ~from_t.given /\ ~to_t.given THEN Raised("ValueError")
  ELSE IF from_t.given
  THEN Stream(SelectSeq(items,
         LAMBDA product :
           /\ Has(product, "last_modified_t")
           /\ product["last_modified_t"].v >= from_t.timestamp))
  ELSE Stream(SelectSeq(items,
         LAMBDA product :
           /\ Has(product, "last_modified_t")
           /\ product["last_modified_t"].v <= to_t.timestamp))

\* ProductStream.collect
collect(stream) == stream

\* ---- the products the single filters are applied to: a product carries a
\* number field, or a modification time, or neither
NumberValues == {JNull, JInt(0), JInt(10), JInt(11), JStr("x")}
FilterItems ==
  {EmptyItem}
  \cup {Item([unique_scans_n |-> n]) : n \in NumberValues}
  \cup {Item([last_modified_t |-> JInt(t)]) : t \in 1..MaxTime}

Times == {NoTime} \cup {Time(n) : n \in 1..MaxTime}

InitFilter ==
  /\ input \in SeqsUpTo(FilterItems, MaxLen)
  /\ call = [op |-> "none"]
  /\ result = [op |-> "none"]
  /\ RefreshIdle
  /\ LiveIdle

\* stream.filter_number_field(field, ref, default, operator).collect()
FilterNumberField ==
  /\ call.op = "none"
  /\ \E default \in {JInt(0), JInt(11)}, operator \in ComparisonOperator \cup {"neq"} :
       /\ call' = [op |-> "filter_number_field", field |-> "unique_scans_n",
                   ref |-> JInt(10), default |-> default, operator |-> operator]
       /\ result' = [op |-> "filter_number_field",
                     stream |-> collect(filter_number_field(input, "unique_scans_n",
                                                            JInt(10), default, operator))]
  /\ UNCHANGED <<input, refreshVars, liveVars>>

\* stream.filter_by_modified_datetime(from_t, to_t).collect()
FilterByModifiedDatetime ==
  /\ call.op = "none"
  /\ \E from_t \in Times, to_t \in Times :
       /\ call' = [op |-> "filter_by_modified_datetime", from_t |-> from_t, to_t |-> to_t]
       /\ result' = [op |-> "filter_by_modified_datetime",
                     stream |-> collect(filter_by_modified_datetime(input, from_t, to_t))]
  /\ UNCHANGED <<input, refreshVars, liveVars>>

NextFilter ==
  \/ FilterNumberField
  \/ FilterByModifiedDatetime

SpecFilter == InitFilter /\ [][NextFilter]_vars

\* ---- chains of two filter stages
\* one filter call of the chain: the method and its arguments
Stages ==
  { [method |-> "filter_by_country_tag", field |-> "countries_tags", value |-> JStr("fr")],
    [method |-> "filter_by_state_tag", field |-> "states_tags", value |-> JStr("en:complete")],
    [method |-> "filter_text_field", field |-> "lang", value |-> JStr("fr")],
    [method |-> "filter_number_field", field |-> "unique_scans_n", value |-> JInt(10)],
    [method |-> "filter_nonempty_text_field", field |-> "lang", value |-> JNull],
    [method |-> "filter_empty_text_field", field |-> "lang", value |-> JNull],
    [method |-> "filter_nonempty_tag_field", field |-> "countries_tags", value |-> JNull],
    [method |-> "filter_empty_tag_field", field |-> "countries_tags", value |-> JNull] }

\* stream.<method>(...): a stage wraps the stream it is called on; consuming it
\* consumes that stream, and an exception of that stream comes through
apply_stage(stage, stream) ==
  IF stream.raised # "none" THEN stream
  ELSE CASE stage.method = "filter_by_country_tag" ->
              filter_by_country_tag(stream.items, stage.value)
         [] stage.method = "filter_by_state_tag" ->
              filter_by_state_tag(stream.items, stage.value)
         [] stage.method = "filter_text_field" ->
              filter_text_field(stream.items, stage.field, stage.value)
         [] stage.method = "filter_number_field" ->
              filter_number_field(stream.items, stage.field, stage.value, JInt(0), "gt")
         [] stage.method = "filter_nonempty_text_field" ->
              filter_nonempty_text_field(stream.items, stage.field)
         [] stage.method = "filter_empty_text_field" ->
              filter_empty_text_field(stream.items, stage.field)
         [] stage.method = "filter_nonempty_tag_field" ->
              filter_nonempty_tag_field(stream.items, stage.field)
         [] OTHER ->
              filter_empty_tag_field(stream.items, stage.field)

ComposeItems ==
  {Item([countries_tags |-> c, states_tags |-> st, lang |-> l, unique_scans_n |-> n]) :
     c \in {Absent, JList(<<JStr("fr")>>)},
     st \in {Absent, JList(<<JStr("en:complete")>>)},
     l \in {Absent, JStr("fr")},
     n \in {Absent, JInt(11)}}

InitCompose ==
  /\ input \in SeqsUpTo(ComposeItems, MaxLen)
  /\ call = [op |-> "none"]
  /\ result = [op |-> "none"]
  /\ RefreshIdle
  /\ LiveIdle

\* ProductStream(source).a().b().collect() and ProductStream(source).b().a().collect()
FilterChain ==
  /\ call.op = "none"
  /\ \E a \in Stages, b \in Stages :
       /\ call' = [op |-> "chain", a |-> a, b |-> b]
       /\ result' = [op |-> "chain",
                     ab |-> collect(apply_stage(b, apply_stage(a, Stream(input)))),
                     ba |-> collect(apply_stage(a, apply_stage(b, Stream(input))))]
  /\ UNCHANGED <<input, refreshVars, liveVars>>

NextCompose == FilterChain

SpecCompose == InitCompose /\ [][NextCompose]_vars

\* ------------------------------------------- calls and lazy consumption
\* A filter method runs its body at the call and returns a stream over a
\* generator expression, whose test runs once per element when the stream is
\* consumed. A pipeline is: its state ("open" while it can yield, "done" when
\* exhausted, "raised"), when it raised ("call", "iteration", "none") and what,
\* the number of elements pulled from the source, and the products yielded.
Pipeline(state, at, exc, consumed, items) ==
  [state |-> state, at |-> at, exc |-> exc, consumed |-> consumed, items |-> items]

filter_number_field_at_call_deferred(operator) == "none"

\* filter_number_field, the statement before the generator expression:
\* operator_ = ComparisonOperator.get_from_string(operator)
filter_number_field_at_call(operator) == get_from_string(operator).raised

\* filter_by_modified_datetime: `if from_t is None and to_t is None: raise`
filter_by_modified_datetime_at_call(from_t, to_t) ==
  IF ~from_t.given /\ ~to_t.given THEN "ValueError" ELSE "none"

\* load_from_path: `if projection is not None and "code" not in projection: raise`
load_from_path_at_call(projection) ==
  IF projection.given /\ "code" \notin projection.fields THEN "ValueError" ELSE "none"

LazyItems == FilterItems \cup {Item([code |-> JStr("1")])}

InitLazy ==
  /\ input \in SeqsUpTo(LazyItems, MaxLen)
  /\ call = [op |-> "none"]
  /\ result = [op |-> "none"]
  /\ RefreshIdle
  /\ LiveIdle

\* stream.filter_number_field(field, ref, default, operator)
CallFilterNumberField ==
  /\ call.op = "none"
  /\ \E default \in {JInt(0), JInt(11)}, operator \in ComparisonOperator \cup {"neq"} :
       LET exc == filter_number_field_at_call(operator)
       IN /\ call' = [op |-> "filter_number_field", field |-> "unique_scans_n",
                      ref |-> JInt(10), default |-> default, operator |-> operator]
          /\ result' = [op |-> "filter_number_field",
                        pipeline |-> IF exc # "none"
                                     THEN Pipeline("raised", "call", exc, 0, <<>>)
                                     ELSE Pipeline("open", "none", "none", 0, <<>>)]
  /\ UNCHANGED <<input, refreshVars, liveVars>>

\* stream.filter_by_modified_datetime(from_t, to_t)
CallFilterByModifiedDatetime ==
  /\ call.op = "none"
  /\ \E from_t \in Times, to_t \in Times :
       LET exc == filter_by_modified_datetime_at_call(from_t, to_t)
       IN /\ call' = [op |-> "filter_by_modified_datetime",
                      from_t |-> from_t, to_t |-> to_t]
          /\ result' = [op |-> "filter_by_modified_datetime",
                        pipeline |-> IF exc # "none"
                                     THEN Pipeline("raised", "call", exc, 0, <<>>)
                                     ELSE Pipeline("open", "none", "none", 0, <<>>)]
  /\ UNCHANGED <<input, refreshVars, liveVars>>

\* MemoryProductStore.load_from_path(path, projection): not lazy, the whole
\* dataset is read inside the call once the projection is accepted
CallLoadFromPath ==
  /\ call.op = "none"
  /\ \E projection \in StoreProjections :
       LET exc == load_from_path_at_call(projection)
       IN /\ call' = [op |-> "load_from_path", projection |-> projection]
          /\ result' = [op |-> "load_from_path",
                        pipeline |-> IF exc # "none"
                                     THEN Pipeline("raised", "call", exc, 0, <<>>)
                                     ELSE Pipeline("done", "none", "none", Len(input),
                                                   iter_product(input, projection))]
  /\ UNCHANGED <<input, refreshVars, liveVars>>

\* the filter of the open pipeline applied to the one element pulled
stage_on(element) ==
  IF call.op = "filter_number_field"
  THEN filter_number_field(<<element>>, call.field, call.ref, call.default, call.operator)
  ELSE filter_by_modified_datetime(<<element>>, call.from_t, call.to_t)

\* next() on the stream: one element is pulled from the source and tested
ConsumeNext ==
  /\ call.op \in {"filter_number_field", "filter_by_modified_datetime"}
  /\ result.pipeline.state = "open"
  /\ result.pipeline.consumed < Len(input)
  /\ LET n == result.pipeline.consumed + 1
         r == stage_on(input[n])
     IN result' = [result EXCEPT !.pipeline =
                     IF r.raised # "none"
                     THEN Pipeline("raised", "iteration", r.raised, n, @.items)
                     ELSE Pipeline("open", "none", "none", n, @.items \o r.items)]
  /\ UNCHANGED <<input, call, refreshVars, liveVars>>

\* next() on the stream when the source is exhausted
ConsumeEnd ==
  /\ call.op \in {"filter_number_field", "filter_by_modified_datetime"}
  /\ result.pipeline.state = "open"
  /\ result.pipeline.consumed = Len(input)
  /\ result' = [result EXCEPT !.pipeline.state = "done"]
  /\ UNCHANGED <<input, call, refreshVars, liveVars>>

NextLazy ==
  \/ CallFilterNumberField
  \/ CallFilterByModifiedDatetime
  \/ CallLoadFromPath
  \/ ConsumeNext
  \/ ConsumeEnd

SpecLazy == InitLazy /\ [][NextLazy]_vars

\* --------------------------------------------------- get_mongo_client
\* get_product_store(server_type) calls get_mongo_client(), which
\* functools.cache wraps: the wrapper looks the (empty) argument tuple up in
\* its cache; on a miss it calls the function, then stores what it returned
\* and returns it. The lookup and the store are each atomic; the call between
\* them is not, so another thread may run meanwhile.
InitClient ==
  /\ client = NoClient
  /\ mongoAccess = FALSE
  /\ collection = {}
  /\ queries = 0
  /\ lookup = [op |-> "none"]
  /\ RefreshIdle
  /\ PureIdle

\* the wrapper finds the client in its cache and returns it
CacheHit(t) ==
  /\ client.pc[t] = "idle"
  /\ client.calls < MaxClientCalls
  /\ client.cache # 0
  /\ client' = [client EXCEPT !.calls = @ + 1, !.got[t] = client.cache]
  /\ UNCHANGED <<mongoAccess, collection, queries, lookup, refreshVars, pureVars>>

\* the wrapper finds its cache empty and goes on to call the function
CacheMiss(t) ==
  /\ client.pc[t] = "idle"
  /\ client.calls < MaxClientCalls
  /\ client.cache = 0
  /\ client' = [client EXCEPT !.calls = @ + 1, !.pc[t] = "calling"]
  /\ UNCHANGED <<mongoAccess, collection, queries, lookup, refreshVars, pureVars>>

\* get_mongo_client's body: MongoClient(settings.MONGO_URI, ...)
Construct(t) ==
  /\ client.pc[t] = "calling"
  /\ client' = [client EXCEPT !.created = @ + 1, !.held[t] = client.created + 1,
                              !.pc[t] = "storing"]
  /\ UNCHANGED <<mongoAccess, collection, queries, lookup, refreshVars, pureVars>>

\* the wrapper stores the result in its cache and returns it
CacheStore(t) ==
  /\ client.pc[t] = "storing"
  /\ client' = [client EXCEPT !.cache = client.held[t], !.got[t] = client.held[t],
                              !.held[t] = 0, !.pc[t] = "idle"]
  /\ UNCHANGED <<mongoAccess, collection, queries, lookup, refreshVars, pureVars>>

NextClient ==
  \E t \in 1..MaxThreads :
    \/ CacheHit(t)
    \/ CacheMiss(t)
    \/ Construct(t)
    \/ CacheStore(t)

SpecClient == InitClient /\ [][NextClient]_vars

\* ---------------------------------------------------------- export path
\* a path is a sequence of atoms: "/" the separator, "." the extension
\* separator, "parquet" the text `parquet`, "a" any other character
PathAtoms == {"/", ".", "parquet", "a"}

RECURSIVE rfind(_, _, _)
\* str.rfind on a path: the last index of the atom at or before i, 0 when none
rfind(p, atom, i) ==
  IF i = 0 THEN 0 ELSE IF p[i] = atom THEN i ELSE rfind(p, atom, i - 1)

RECURSIVE skip_leading_dots(_, _, _)
\* genericpath._splitext, its `while filenameIndex < dotIndex` loop: whether
\* a character other than the dot precedes the last dot in the file name
skip_leading_dots(p, filenameIndex, dotIndex) ==
  IF filenameIndex >= dotIndex THEN FALSE
  ELSE IF p[filenameIndex] # "." THEN TRUE
  ELSE skip_leading_dots(p, filenameIndex + 1, dotIndex)

\* os.path.splitext(p)[-1]
splitext_ext(p) ==
  LET sepIndex == rfind(p, "/", Len(p))
      dotIndex == rfind(p, ".", Len(p))
  IN IF dotIndex > sepIndex /\ skip_leading_dots(p, sepIndex + 1, dotIndex)
     THEN SubSeq(p, dotIndex, Len(p))
     ELSE <<>>

ParquetSuffix == <<".", "parquet">>

\* the outcome of an export call: the exception raised ("none" for none), the
\* number of duckdb.sql calls and the number of HfApi().upload_file calls made
Export(raised, executed, uploaded) ==
  [raised |-> raised, executed |-> executed, uploaded |-> uploaded]

convert_jsonl_to_parquet_and(dataset_exists, query_exists, query_fails) ==
  IF ~query_exists THEN Export("FileNotFoundError", 0, 0)
  ELSE IF query_fails \/ ~dataset_exists THEN Export("duckdb.Error", 1, 0)
  ELSE Export("none", 1, 0)

\* convert_jsonl_to_parquet; query_fails says whether duckdb.sql raises
convert_jsonl_to_parquet(dataset_exists, query_exists, query_fails) ==
  IF ~dataset_exists \/ ~query_exists THEN Export("FileNotFoundError", 0, 0)
  ELSE IF query_fails THEN Export("duckdb.Error", 1, 0)
  ELSE Export("none", 1, 0)

\* push_data_to_hf
push_data_to_hf(data_path, data_exists) ==
  IF ~data_exists THEN Export("FileNotFoundError", 0, 0)
  ELSE IF splitext_ext(data_path) # ParquetSuffix THEN Export("ValueError", 0, 0)
  ELSE Export("none", 0, 1)

\* the files on disk and the arguments of the export calls
InitExport ==
  /\ input \in [dataset_exists : BOOLEAN, query_exists : BOOLEAN,
                query_fails : BOOLEAN, data_exists : BOOLEAN,
                data_path : SeqsUpTo(PathAtoms, MaxPath)]
  /\ call = [op |-> "none"]
  /\ result = [op |-> "none"]
  /\ RefreshIdle
  /\ LiveIdle

\* convert_jsonl_to_parquet(output_file_path, dataset_path, query_path)
ConvertJsonlToParquet ==
  /\ call.op = "none"
  /\ call' = [op |-> "convert_jsonl_to_parquet"]
  /\ result' = [op |-> "convert_jsonl_to_parquet",
                export |-> convert_jsonl_to_parquet(input.dataset_exists,
                                                    input.query_exists,
                                                    input.query_fails)]
  /\ UNCHANGED <<input, refreshVars, liveVars>>

\* push_data_to_hf(data_path)
PushDataToHf ==
  /\ call.op = "none"
  /\ call' = [op |-> "push_data_to_hf"]
  /\ result' = [op |-> "push_data_to_hf",
                export |-> push_data_to_hf(input.data_path, input.data_exists)]
  /\ UNCHANGED <<input, refreshVars, liveVars>>

NextExport ==
  \/ ConvertJsonlToParquet
  \/ PushDataToHf

SpecExport == InitExport /\ [][NextExport]_vars

\* ---------------------------------------------------- claims: lifecycle
\* what the claims call a file that fails validation
FailsValidation(f) ==
  \/ \E i \in 1..Len(f.lines) : ~f.lines[i].parses
  \/ Len(f.lines) < minCount

\* C1: a refresh cycle whose downloaded file fails validation (a line that does
\* not parse, or fewer records than the configured minimum) installs nothing:
\* the installed snapshot, the installed minified snapshot and the persisted
\* token are those of before the cycle, and the cycle returns False instead of
\* raising.
C1_InvalidDownloadInstallsNothing ==
  (hist.fetched.exists /\ FailsValidation(hist.fetched)) =>
     /\ installed = hist.installed
     /\ installedMin = hist.installedMin
     /\ etagFile = hist.etagFile
     /\ pc \in {"validate", "idle"}
     /\ (pc = "idle" => outcome \in {"false", "crashed"})

C1_Witness ==
  /\ pc = "idle"
  /\ outcome = "false"
  /\ hist.installed.exists
  /\ hist.fetched.exists
  /\ \A i \in 1..Len(hist.fetched.lines) : hist.fetched.lines[i].parses
  /\ Len(hist.fetched.lines) < minCount
  /\ Len(hist.fetched.lines) > 0

\* C2: at every point of a refresh cycle that replaces an installed snapshot,
\* the installed snapshot file holds either the complete previous snapshot or
\* the complete new one.
C2_InstalledIsOldOrNew ==
  (hist.installed.exists /\ hist.installed.lines # <<>>) =>
     installed \in {hist.installed, hist.fetched}

\* C3: when the persisted token equals the remote's current token with its
\* quote characters stripped, a refresh cycle (any number of them in a row)
\* downloads nothing, leaves the installed files and the token as they are and
\* ends at the change check.
C3_UnchangedTokenSkips ==
  [][ ( /\ pc = "idle"
        /\ etagFile.exists
        /\ etagFile.text = strip(remoteEtag)
        /\ remoteEtag' = remoteEtag )
      => ( /\ pc' = "idle"
           /\ outcome' = "skipped"
           /\ downloads' = downloads
           /\ installed' = installed
           /\ installedMin' = installedMin
           /\ etagFile' = etagFile ) ]_vars

C3_Witness ==
  /\ pc = "idle"
  /\ outcome = "skipped"
  /\ skipsInRow = 2
  /\ installed.exists
  /\ etagFile.exists
  /\ remoteEtag # etagFile.text
  /\ downloads > 0

\* ---------------------------------------------------- claims: projection
\* C4 as stated: the Record's image_ids are exactly the digit-only keys of
\* that same Record's images, for every raw product and every projection.
C4_ImageIdsAreDigitKeysOfImages ==
  result.op = "iter_product" =>
    \A i \in 1..Len(result.products) :
      result.products[i].image_ids = digit_keys(result.products[i].images)

\* C4 amended: image_ids are the digit-only keys of the Record's images except
\* in two cases: with a non-empty projection that requests image_ids they are
\* the digit-only keys of the RAW product's images (the Record's images being
\* empty when images is not projected); with no (or an empty) projection and a
\* raw product that carries its own image_ids key, that value is taken as is.
C4_ImageIdsAmended ==
  result.op = "iter_product" =>
    \A i \in 1..Len(result.products) :
      LET p == result.products[i]
          raw == input[i]
          fields == call.projection.fields
          projecting == call.projection.given /\ fields # {}
          keysOf(images) ==
            LET digits(key) == key # <<>> /\ \A j \in 1..Len(key) : key[j] \in Digits
            IN JList(SelectSeq(images.v, digits))
          rawImages ==
            IF Has(raw, "images") /\ raw["images"].t = "map" THEN raw["images"]
            ELSE JMap(<<>>)
      IN /\ p.images = (IF projecting /\ "images" \notin fields THEN JMap(<<>>)
                        ELSE rawImages)
         /\ p.image_ids =
              (IF projecting /\ "image_ids" \in fields THEN keysOf(rawImages)
               ELSE IF ~projecting /\ Has(raw, "image_ids") THEN raw["image_ids"]
               ELSE keysOf(p.images))

C4_Witness ==
  /\ result.op = "iter_product"
  /\ call.projection = Projection({"code", "image_ids"})
  /\ Has(input[1], "image_ids")
  /\ result.products[1].images = JMap(<<>>)
  /\ result.products[1].image_ids = JList(<< <<"1", "2">>, <<"1">> >>)

\* ------------------------------------------------------ claims: snapshot
\* C5: minify_product_dataset writes one record per input record, in the same
\* order, each the input record restricted to Product.get_fields(): no key
\* outside the whitelist, every whitelisted key of the input kept with its value.
C5_MinifyKeepsRowsDropsFields ==
  result.op = "minify_product_dataset" =>
    LET out == result.file.lines
    IN /\ Len(out) = Len(input)
       /\ \A i \in 1..Len(input) :
            /\ out[i].parses
            /\ DOMAIN out[i].item \subseteq get_fields
            /\ {"foo", "image_ids"} \cap DOMAIN out[i].item = {}
            /\ \A k \in DOMAIN input[i] :
                 k \in get_fields =>
                   k \in DOMAIN out[i].item /\ out[i].item[k] = input[i][k]

C5_Witness ==
  /\ result.op = "minify_product_dataset"
  /\ Len(input) = 2
  /\ DOMAIN input[1] = {"code", "foo"}
  /\ DOMAIN input[2] = {"lang", "image_ids"}
  /\ DOMAIN result.file.lines[1].item = {"code"}
  /\ DOMAIN result.file.lines[2].item = {"lang"}

\* the non-empty identifiers of the snapshot
SnapshotIds ==
  {input[i]["code"] : i \in {j \in 1..Len(input) :
      Has(input[j], "code") /\ input[j]["code"].t = "str" /\ input[j]["code"].v # ""}}

\* C7: a store built from a snapshot (no projection, or one that lists `code`)
\* is built without raising; lookup(k) returns a Record exactly when a snapshot
\* record has the non-empty identifier k, and that Record's barcode is k;
\* size() is the number of distinct non-empty identifiers.
C7_StoreIndexesNonEmptyIds ==
  result.op = "load_from_path" =>
    /\ result.raised = (call.projection.given /\ "code" \notin call.projection.fields)
    /\ ~result.raised =>
         /\ \A k \in LookupKeys :
              /\ (store_getitem(result.store, k) # None) = (k \in SnapshotIds)
              /\ k \in SnapshotIds => store_getitem(result.store, k).barcode = k
         /\ store_len(result.store) = Cardinality(SnapshotIds)

C7_Witness ==
  /\ result.op = "load_from_path"
  /\ ~result.raised
  /\ call.projection = Projection({"code"})
  /\ Len(input) = 2
  /\ ~Has(input[1], "code")
  /\ Has(input[2], "code")
  /\ input[2]["code"] = JStr("2")
  /\ store_len(result.store) = 1
  /\ store_getitem(result.store, JStr("2")) # None

\* ---------------------------------------------------- claims: live store
\* C6: with the remote-access flag off, every lookup (get_product and
\* __getitem__), whatever the identifier and whatever lookups came before,
\* returns absent and queries the remote collection not once; with the flag on,
\* a lookup of an identifier the collection does not hold returns absent.
C6_DisabledOrMissingIsAbsent ==
  /\ ~mongoAccess => queries = 0
  /\ lookup.op # "none" =>
       /\ ~mongoAccess => lookup.value = None /\ ~lookup.queried
       /\ (mongoAccess /\ lookup.id \notin collection) => lookup.value = None
       /\ (mongoAccess /\ lookup.id \in collection) => lookup.value # None

C6_Witness ==
  /\ ~mongoAccess
  /\ lookup.op = "getitem"
  /\ lookup.n = 3
  /\ lookup.id \in collection
  /\ lookup.value = None
  /\ queries = 0

\* ------------------------------------------------------- claims: filters
\* C8: filter_by_modified_datetime keeps exactly the records whose
\* last_modified_t lies within the inclusive bounds given: t >= from when from
\* is given, and t <= to when to is given, both when both are given.
C8_ModifiedWithinBothBounds ==
  (result.op = "filter_by_modified_datetime" /\ result.stream.raised = "none") =>
    result.stream.items =
      SelectSeq(input,
        LAMBDA r :
          /\ Has(r, "last_modified_t")
          /\ call.from_t.given => r["last_modified_t"].v >= call.from_t.timestamp
          /\ call.to_t.given => r["last_modified_t"].v <= call.to_t.timestamp)

\* what C9 calls compare(v, ref, operator), incomparable types being a non-match
ClaimCompare(v, ref, operator) ==
  IF operator = "eq" THEN v = ref
  ELSE /\ v.t = "int"
       /\ ref.t = "int"
       /\ \/ operator = "gt" /\ v.v > ref.v
          \/ operator = "geq" /\ v.v >= ref.v
          \/ operator = "lt" /\ v.v < ref.v
          \/ operator = "leq" /\ v.v <= ref.v

\* C9: for each of eq, gt, geq, lt, leq, filter_number_field keeps a record
\* exactly when compare(v, ref, operator) holds, v being the record's field
\* value, or the default when the field is missing; incomparable types are a
\* non-match, and consuming the stream raises nothing.
C9_NumberFilterNeverRaises ==
  (result.op = "filter_number_field" /\ call.operator \in {"eq", "gt", "geq", "lt", "leq"}) =>
    /\ result.stream.raised = "none"
    /\ result.stream.items =
         SelectSeq(input,
           LAMBDA r :
             ClaimCompare(IF Has(r, call.field) THEN r[call.field] ELSE call.default,
                          call.ref, call.operator))

C9_Witness ==
  /\ result.op = "filter_number_field"
  /\ call.operator = "gt"
  /\ call.default = JInt(0)
  /\ call.ref = JInt(10)
  /\ Len(input) = 2
  /\ input[1] = EmptyItem
  /\ input[2] = Item([unique_scans_n |-> JStr("x")])
  /\ result.stream = Stream(<<>>)

RECURSIVE IsSubsequence(_, _)
IsSubsequence(sub, seq) ==
  IF sub = <<>> THEN TRUE
  ELSE IF seq = <<>> THEN FALSE
  ELSE IF Head(sub) = Head(seq) THEN IsSubsequence(Tail(sub), Tail(seq))
  ELSE IsSubsequence(sub, Tail(seq))

\* C10: for two filter stages a and b, collect() after a then b yields the same
\* records, in the same order, as collect() after b then a, and both are a
\* subsequence of the source.
C10_FiltersCommute ==
  result.op = "chain" =>
    /\ result.ab = result.ba
    /\ result.ab.raised = "none"
    /\ IsSubsequence(result.ab.items, input)

C10_Witness ==
  /\ result.op = "chain"
  /\ call.a.method = "filter_text_field"
  /\ call.b.method = "filter_by_country_tag"
  /\ Len(input) = 2
  /\ DOMAIN input[1] = {"lang"}
  /\ DOMAIN input[2] = {"lang", "countries_tags"}
  /\ result.ab.items = <<input[2]>>
  /\ result.ba.items = <<input[2]>>

\* ------------------------------------------------------- claims: export
\* a path whose file name ends in `.parquet`, something other than dots
\* standing before that dot in the file name
EndsInParquet(p) ==
  /\ Len(p) >= 3
  /\ p[Len(p)] = "parquet"
  /\ p[Len(p) - 1] = "."
  /\ \E i \in 1..(Len(p) - 2) :
       /\ p[i] \notin {".", "/"}
       /\ \A j \in i..(Len(p) - 2) : p[j] # "/"

\* C11: convert_jsonl_to_parquet raises a missing-file error and executes no
\* query when the snapshot file or the query template is missing;
\* push_data_to_hf raises a missing-file error when the data file is missing,
\* and (the file existing) a validation error when its extension is not
\* `.parquet`, in both cases without calling the upload; the query and the
\* upload are made only when the checks pass.
C11_ChecksBeforeSideEffects ==
  /\ result.op = "convert_jsonl_to_parquet" =>
       IF ~input.dataset_exists \/ ~input.query_exists
       THEN result.export = Export("FileNotFoundError", 0, 0)
       ELSE result.export.executed = 1 /\ result.export.raised # "FileNotFoundError"
  /\ result.op = "push_data_to_hf" =>
       IF ~input.data_exists
       THEN result.export = Export("FileNotFoundError", 0, 0)
       ELSE IF ~EndsInParquet(input.data_path)
       THEN result.export = Export("ValueError", 0, 0)
       ELSE result.export = Export("none", 0, 1)

C11_Witness ==
  /\ result.op = "convert_jsonl_to_parquet"
  /\ input.dataset_exists
  /\ ~input.query_exists
  /\ result.export.raised = "FileNotFoundError"
  /\ result.export.executed = 0

\* ----------------------------------------------- claims: token persisted
\* C12: the validation token is written only as the last step of a cycle that
\* installs: the downloaded file has passed validation, the full snapshot (and
\* the minified one when minification is on) is installed complete, the cycle
\* ends with that write, and the value written is the token that came with the
\* GET transfer of the installed content (quote characters stripped), whatever
\* the remote serves at that moment.
C12_TokenWrittenLast ==
  [][ (etagFile' # etagFile) =>
        /\ pc = "save_etag"
        /\ ~FailsValidation(hist.fetched)
        /\ installed = hist.fetched
        /\ installed' = installed
        /\ minify => /\ installedMin.exists
                     /\ Len(installedMin.lines) = Len(hist.fetched.lines)
                     /\ installedMin = minify_product_dataset(hist.fetched)
        /\ installedMin' = installedMin
        /\ etagFile' = EtagText(strip(hist.header))
        /\ pc' = "idle"
        /\ outcome' = "true" ]_vars

C12_Witness ==
  /\ pc = "idle"
  /\ outcome = "true"
  /\ hist.etagFile.exists
  /\ etagFile # hist.etagFile
  /\ etagFile = EtagText(strip(hist.header))
  /\ strip(remoteEtag) # etagFile.text
  /\ installed = hist.fetched
  /\ installedMin = minify_product_dataset(hist.fetched)
  /\ installedMin # hist.installedMin

\* ------------------------------------------------------- claims: client
\* C13: over any interleaving of calls of get_mongo_client / get_product_store,
\* the MongoClient constructor runs at most once and every caller receives the
\* same client object.
C13_ClientCreatedOnce ==
  /\ client.created <= 1
  /\ \A t1, t2 \in 1..MaxThreads :
       (client.got[t1] # 0 /\ client.got[t2] # 0) => client.got[t1] = client.got[t2]

\* ------------------------------------------- claims: configuration errors
\* the call misconfigures
Misconfigured ==
  \/ call.op = "filter_number_field" /\ call.operator \notin {"eq", "gt", "geq", "lt", "leq"}
  \/ call.op = "filter_by_modified_datetime" /\ ~call.from_t.given /\ ~call.to_t.given
  \/ call.op = "load_from_path" /\ call.projection.given
                                /\ "code" \notin call.projection.fields

\* C14: filter_number_field with an operator name outside {eq, gt, geq, lt,
\* leq}, filter_by_modified_datetime with neither bound and a store build whose
\* projection is given but lacks `code` raise at the call, before any element of
\* the source is consumed; such an error is never raised during iteration, and
\* a well-configured call does not raise at the call.
C14_ConfigurationErrorsAtCall ==
  call.op # "none" =>
    /\ Misconfigured => result.pipeline = Pipeline("raised", "call", "ValueError", 0, <<>>)
    /\ ~Misconfigured => result.pipeline.at # "call"
    /\ result.pipeline.at = "iteration" => result.pipeline.exc # "ValueError"

C14_Witness ==
  /\ call.op = "filter_number_field"
  /\ call.operator = "neq"
  /\ Len(input) = 2
  /\ result.pipeline = Pipeline("raised", "call", "ValueError", 0, <<>>)

====
